---- MODULE Spec2Model ----
(***************************************************************************)
(* Dancing Links (DLX) exact-cover solver and the 2D tiling front-end.     *)
(*                                                                         *)
(* A node reference (Rc<RefCell<Node>>) is modelled by the node's id: ids  *)
(* are minted by the global counter NODE_COUNT, one per Node::new, so the  *)
(* id identifies the node.  The node store `nodes` maps an id to the       *)
(* node's fields u, d, l, r, c and data.                                   *)
(***************************************************************************)
EXTENDS Integers, Sequences, FiniteSets, TLC

VARIABLES
    input,            \* the boolean matrix handed to solve_all / solve_once
    NODE_COUNT,       \* static NODE_COUNT (nodes.rs:7)
    nodes,            \* the node graph of the current build: id -> fields
    root,             \* id of the root node of the current build
    built,            \* the node graph as build returned it
    solution,         \* the partial solution (solution: &mut Vec<usize>)
    partial_results,  \* solutions pushed by search_all
    stack,            \* frames of the active search calls, innermost last
    ret,              \* value returned by the search_once call that returned last
    pc,               \* position of the running call
    all_result,       \* what solve_all returned
    once_result,      \* what solve_once returned
    covers,           \* cover calls not yet undone: header and graph before
    expect,           \* graph that the last uncover has to restore
    game,             \* the Game2D: w, h, blocks
    block_i,          \* get_matrix: number of blocks already handled
    transformations,  \* get_matrix: what get_transformations returned last
    variations,       \* get_matrix: the rows pushed so far
    origin            \* for each row of variations, the index of its block

game_vars == << game, block_i, transformations, variations, origin >>

vars == << input, NODE_COUNT, nodes, root, built, solution, partial_results,
           stack, ret, pc, all_result, once_result, covers, expect, game_vars >>

\* ------------------------------------------------------------------ bounds
MaxRows == 4
MaxCols == 4
MaxCells == 9
\* Boards of the tiling games: 1..MaxW by 1..MaxH.
MaxW == 3
MaxH == 3
\* Malformed matrices: at most MaxRaggedRows rows of at most MaxRaggedLen cells.
MaxRaggedRows == 3
MaxRaggedLen == 3

\* usize::MAX, the initial min_size of the column scan.  The largest integer
\* that TLC holds stands for it; a payload is at most the number of rows.
usize_MAX == 2147483647

\* ------------------------------------------------------------ Option<T>
None == << >>
Some(x) == << x >>

\* --------------------------------------------------------------- matrices
Width(m) == Len(m[1])

\* All rectangular non-empty boolean matrices within the bounds.
Matrices ==
    UNION { [1..h -> [1..w -> BOOLEAN]] :
              << h, w >> \in { p \in (1..MaxRows) \X (1..MaxCols) :
                                 p[1] * p[2] <= MaxCells } }

\* ------------------------------------------------------------------ nodes
\* Node::new that drops its argument and stores 0 as the payload.
new_zero(id, data) == [u |-> id, d |-> id, l |-> id, r |-> id, c |-> id, data |-> 0]

\* Node::new: every link of a fresh node points at the node itself.
new(id, data) == [u |-> id, d |-> id, l |-> id, r |-> id, c |-> id, data |-> data]

unlink_lr(n, node) ==
    LET l == n[node].l
        r == n[node].r
        n1 == [n EXCEPT ![l].r = r]
    IN  [n1 EXCEPT ![r].l = l]

unlink_ud(n, node) ==
    LET u == n[node].u
        d == n[node].d
        n1 == [n EXCEPT ![u].d = d]
    IN  [n1 EXCEPT ![d].u = u]

link_lr(n, node) ==
    LET l == n[node].l
        r == n[node].r
        n1 == [n EXCEPT ![l].r = node]
    IN  [n1 EXCEPT ![r].l = node]

\* A link_ud that sets the link of the node above and forgets the one below.
link_ud_above_only(n, node) == [n EXCEPT ![n[node].u].d = node]

link_ud(n, node) ==
    LET u == n[node].u
        d == n[node].d
        n1 == [n EXCEPT ![u].d = node]
    IN  [n1 EXCEPT ![d].u = node]

\* ------------------------------------------------------------------ build
\* Ids of one build that starts with NODE_COUNT = base: the root, then the
\* headers of columns 0 .. width-1, then the data nodes in creation order.
header(base, x) == base + 1 + x

\* Root and headers chained into the header row (nodes.rs:77-90).
build_headers(base, width) ==
    [id \in base .. base + width |->
        IF id = base
        THEN [new(id, 0) EXCEPT !.r = header(base, 0), !.l = header(base, width - 1)]
        ELSE [new(id, 0) EXCEPT
                !.l = IF id = header(base, 0) THEN base ELSE id - 1,
                !.r = IF id = header(base, width - 1) THEN base ELSE id + 1]]

\* The inner loop over one row (nodes.rs:95-109).  st holds the loop state:
\* the graph n, row_nodes, the id the next Node::new gets, and the index x.
RECURSIVE build_cells(_, _, _, _)
build_cells(st, base, row, y) ==
    IF st.x >= Len(row) THEN st
    ELSE IF row[st.x + 1]
    THEN LET hx == header(base, st.x)
             node == st.next
             n0 == st.n
             fresh == [new(node, y) EXCEPT !.c = hx, !.d = hx, !.u = n0[hx].u]
             n1 == (node :> fresh) @@ n0
             n2 == [n1 EXCEPT ![n1[hx].u].d = node]
             n3 == [n2 EXCEPT ![hx].u = node]
             n4 == [n3 EXCEPT ![hx].data = @ + 1]
         IN  build_cells([n |-> n4, row_nodes |-> Append(st.row_nodes, node),
                          next |-> node + 1, x |-> st.x + 1], base, row, y)
    ELSE build_cells([st EXCEPT !.x = @ + 1], base, row, y)

\* The loop that links the nodes of a row (nodes.rs:115-118); st = [n, i].
RECURSIVE build_row_links(_, _)
build_row_links(st, row_nodes) ==
    IF st.i >= Len(row_nodes) THEN st.n
    ELSE LET i == st.i
             n1 == IF i /= 0
                   THEN [st.n EXCEPT ![row_nodes[i + 1]].l = row_nodes[i]]
                   ELSE st.n
             n2 == IF i /= Len(row_nodes) - 1
                   THEN [n1 EXCEPT ![row_nodes[i + 1]].r = row_nodes[i + 2]]
                   ELSE n1
         IN  build_row_links([n |-> n2, i |-> i + 1], row_nodes)

\* The row ring (nodes.rs:111-119).
build_row_ring(n, row_nodes) ==
    LET len == Len(row_nodes)
    IN  IF len = 0 THEN n
        ELSE LET n1 == [n EXCEPT ![row_nodes[1]].l = row_nodes[len]]
                 n2 == [n1 EXCEPT ![row_nodes[len]].r = row_nodes[1]]
             IN  build_row_links([n |-> n2, i |-> 0], row_nodes)

\* The loop over the rows (nodes.rs:92-120); st = [n, next, y].
RECURSIVE build_rows(_, _, _)
build_rows(st, base, m) ==
    IF st.y >= Len(m) THEN st
    ELSE LET row == build_cells([n |-> st.n, row_nodes |-> << >>,
                                 next |-> st.next, x |-> 0],
                                base, m[st.y + 1], st.y)
         IN  build_rows([n |-> build_row_ring(row.n, row.row_nodes),
                         next |-> row.next, y |-> st.y + 1], base, m)

\* A build that leaves the headers of empty columns in the header row.
build_unlink_empty_none(st, base, width) == st.n

\* Empty columns leave the header row (nodes.rs:122-124); st = [n, x].
RECURSIVE build_unlink_empty(_, _, _)
build_unlink_empty(st, base, width) ==
    IF st.x >= width THEN st.n
    ELSE build_unlink_empty(
            [n |-> IF st.n[header(base, st.x)].data = 0
                   THEN unlink_lr(st.n, header(base, st.x))
                   ELSE st.n,
             x |-> st.x + 1],
            base, width)

\* build returns the root (the node `base`) and the graph.
build(m, base) ==
    LET width == Width(m)
        n0 == build_headers(base, width)
        rows == build_rows([n |-> n0, next |-> base + width + 1, y |-> 0], base, m)
    IN  build_unlink_empty([n |-> rows.n, x |-> 0], base, width)

\* The number of Node::new calls of one build (nodes.rs:33).
nodes_created(n) == Cardinality(DOMAIN n)

\* build panics on an index out of bounds: input[0] of a matrix without rows
\* (nodes.rs:75), headers[0] when the first row is empty (nodes.rs:80), and
\* headers[x] for a true cell at an index x beyond the first row's length
\* (nodes.rs:98).  A row shorter than the first one, and a longer row whose
\* extra cells are all false, pass: `row.iter().enumerate()` takes each row
\* at its own length and headers[x] is evaluated for true cells only.
build_panics(m) ==
    IF Len(m) = 0 THEN TRUE
    ELSE IF Len(m[1]) = 0 THEN TRUE
    ELSE \E y \in 1..Len(m) : \E x \in 1..Len(m[y]) : x > Len(m[1]) /\ m[y][x]

\* The number of Node::new calls of a build that panics: none before
\* input[0]; the root before headers[0]; the root, the headers and the data
\* nodes up to the one made at nodes.rs:96 for the offending cell.
news_before_panic(m) ==
    IF Len(m) = 0 THEN 0
    ELSE IF Len(m[1]) = 0 THEN 1
    ELSE LET width == Len(m[1])
             cells == UNION { { << y, x >> : x \in { x \in 1..Len(m[y]) : m[y][x] } } :
                                y \in 1..Len(m) }
             before(c, d) == c[1] < d[1] \/ (c[1] = d[1] /\ c[2] <= d[2])
             bad == { c \in cells : c[2] > width }
             first == CHOOSE c \in bad : \A d \in bad : before(c, d)
         IN  1 + width + Cardinality({ c \in cells : before(c, first) })

\* A solver entry point whose build panics: the panic unwinds out of
\* solve_all / solve_once, nothing is searched and nothing is returned.
build_panic ==
    /\ build_panics(input)
    /\ NODE_COUNT' = NODE_COUNT + news_before_panic(input)
    /\ pc' = "panicked"
    /\ UNCHANGED << nodes, root, built >>

\* ---------------------------------------------------------- cover / uncover
\* cover's row loop that unlinks the nodes and forgets the payloads.
RECURSIVE cover_row_no_size(_, _, _)
cover_row_no_size(n, start_node, current_node) ==
    IF current_node = start_node THEN n
    ELSE LET n1 == unlink_ud(n, current_node)
         IN  cover_row_no_size(n1, start_node, n1[current_node].r)

\* The loop over a row of the column (nodes.rs:157-165).
RECURSIVE cover_row(_, _, _)
cover_row(n, start_node, current_node) ==
    IF current_node = start_node THEN n
    ELSE LET n1 == unlink_ud(n, current_node)
             n2 == [n1 EXCEPT ![n1[current_node].c].data = @ - 1]
         IN  cover_row(n2, start_node, n2[current_node].r)

\* The loop over the column (nodes.rs:151-170).
RECURSIVE cover_col(_, _, _)
cover_col(n, start_col, current_col) ==
    IF current_col = start_col THEN n
    ELSE LET n1 == cover_row(n, current_col, n[current_col].r)
         IN  cover_col(n1, start_col, n1[current_col].d)

cover(n, h) ==
    LET n1 == unlink_lr(n, h)
    IN  cover_col(n1, h, n1[h].d)

\* uncover's row loop that relinks the nodes and forgets the payloads.
RECURSIVE uncover_row_no_size(_, _, _)
uncover_row_no_size(n, start_node, current_node) ==
    IF current_node = start_node THEN n
    ELSE LET n1 == link_ud(n, current_node)
         IN  uncover_row_no_size(n1, start_node, n1[current_node].l)

\* The loop over a row of the column (nodes.rs:190-197).
RECURSIVE uncover_row(_, _, _)
uncover_row(n, start_node, current_node) ==
    IF current_node = start_node THEN n
    ELSE LET n1 == link_ud(n, current_node)
             n2 == [n1 EXCEPT ![n1[current_node].c].data = @ + 1]
         IN  uncover_row(n2, start_node, n2[current_node].l)

\* The loop over the column (nodes.rs:184-202).
RECURSIVE uncover_col(_, _, _)
uncover_col(n, start_col, current_col) ==
    IF current_col = start_col THEN n
    ELSE LET n1 == uncover_row(n, current_col, n[current_col].l)
         IN  uncover_col(n1, start_col, n1[current_col].u)

\* An uncover that puts the header back and leaves the rows unlinked.
uncover_header_only(n, h) == link_lr(n, h)

uncover(n, h) ==
    LET n1 == link_lr(n, h)
    IN  uncover_col(n1, h, n1[h].u)

\* The headers threaded by root's right chain, leftmost first.
RECURSIVE header_chain(_, _, _)
header_chain(n, root_id, current_node) ==
    IF current_node = root_id THEN << >>
    ELSE << current_node >> \o header_chain(n, root_id, n[current_node].r)

header_row(n, root_id) == header_chain(n, root_id, n[root_id].r)

\* ------------------------------------------------------------- search_all
\* The scan of search_all with <= for <: the rightmost smallest column wins.
RECURSIVE scan_all_rightmost(_, _, _, _, _)
scan_all_rightmost(n, root_id, current_node, best_col, min_size) ==
    IF current_node = root_id THEN best_col
    ELSE LET current_size == n[current_node].data
         IN  IF current_size <= min_size
             THEN scan_all_rightmost(n, root_id, n[current_node].r,
                                     Some(current_node), current_size)
             ELSE scan_all_rightmost(n, root_id, n[current_node].r, best_col, min_size)

\* The scan for the column with the fewest ones (nodes.rs:214-229).
RECURSIVE scan_all(_, _, _, _, _)
scan_all(n, root_id, current_node, best_col, min_size) ==
    IF current_node = root_id THEN best_col
    ELSE LET current_size == n[current_node].data
         IN  IF current_size < min_size
             THEN scan_all(n, root_id, n[current_node].r, Some(current_node), current_size)
             ELSE scan_all(n, root_id, n[current_node].r, best_col, min_size)

\* best_col.unwrap() (nodes.rs:231).
best_col_all(n, root_id) == scan_all(n, root_id, n[root_id].r, None, usize_MAX)[1]

\* The scan of search_once with <= for <: the rightmost smallest column wins.
RECURSIVE scan_once_rightmost(_, _, _, _, _)
scan_once_rightmost(n, root_id, current_node, best_col, min_size) ==
    IF current_node = root_id THEN best_col
    ELSE LET current_size == n[current_node].data
         IN  IF current_size <= min_size
             THEN scan_once_rightmost(n, root_id, n[current_node].r,
                                      Some(current_node), current_size)
             ELSE scan_once_rightmost(n, root_id, n[current_node].r, best_col, min_size)

\* The scan of search_once (nodes.rs:294-309).
RECURSIVE scan_once(_, _, _, _, _)
scan_once(n, root_id, current_node, best_col, min_size) ==
    IF current_node = root_id THEN best_col
    ELSE LET current_size == n[current_node].data
         IN  IF current_size < min_size
             THEN scan_once(n, root_id, n[current_node].r, Some(current_node), current_size)
             ELSE scan_once(n, root_id, n[current_node].r, best_col, min_size)

\* best_col.unwrap() (nodes.rs:311).
best_col_once(n, root_id) == scan_once(n, root_id, n[root_id].r, None, usize_MAX)[1]

\* A frame holds the locals of one search call that live across its steps.
\* current_row and current_node hold best_col until they are assigned.
frame(best_col) ==
    [best_col |-> best_col, current_row |-> best_col, current_node |-> best_col]

Top == stack[Len(stack)]
Callers == SubSeq(stack, 1, Len(stack) - 1)
set_top(f) == [stack EXCEPT ![Len(stack)] = f]

Result(done, value) == [done |-> done, value |-> value]

\* No solver call has been made yet.
InitSolver ==
    /\ NODE_COUNT = 0
    /\ nodes = << >>
    /\ root = 0
    /\ built = << >>
    /\ solution = << >>
    /\ partial_results = << >>
    /\ stack = << >>
    /\ ret = None
    /\ all_result = Result(FALSE, << >>)
    /\ once_result = Result(FALSE, None)
    /\ covers = << >>
    /\ expect = None

\* The caller holds a matrix and no game.
Init ==
    /\ input \in Matrices
    /\ InitSolver
    /\ pc = "idle"
    /\ game = [w |-> 0, h |-> 0, blocks |-> << >>]
    /\ block_i = 0
    /\ transformations = << >>
    /\ variations = << >>
    /\ origin = << >>

\* solve_all up to its call of search_all (nodes.rs:281-284).
solve_all ==
    /\ pc = "idle"
    /\ ~all_result.done
    /\ IF build_panics(input)
       THEN build_panic
       ELSE /\ LET n == build(input, NODE_COUNT)
               IN  /\ nodes' = n
                   /\ built' = n
                   /\ root' = NODE_COUNT
                   /\ NODE_COUNT' = NODE_COUNT + nodes_created(n)
            /\ pc' = "all_entry"
    /\ solution' = << >>
    /\ partial_results' = << >>
    /\ stack' = << >>
    /\ UNCHANGED << game_vars, input, ret, all_result, once_result, covers, expect >>

\* A search_all call returns with the callers' frames `callers` left on the
\* stack and `results` collected so far.  The top-level call returns into solve_all, which returns the
\* results (nodes.rs:285); a nested call returns to nodes.rs:257, where the
\* caller starts its backtracking loop (nodes.rs:258-260).
all_return(callers, results) ==
    IF callers = << >>
    THEN /\ stack' = << >>
         /\ pc' = "idle"
         /\ all_result' = Result(TRUE, results)
    ELSE /\ stack' = [callers EXCEPT ![Len(callers)].current_node =
                          nodes'[callers[Len(callers)].current_row].l]
         /\ pc' = "all_uncover_row"
         /\ UNCHANGED all_result

\* An entry of search_all that puts a new solution in front of the others.
search_all_entry_prepend ==
    /\ pc = "all_entry"
    /\ IF nodes[root].r = root
       THEN /\ partial_results' = << solution >> \o partial_results
            /\ UNCHANGED nodes
            /\ all_return(stack, partial_results')
       ELSE /\ stack' = Append(stack, frame(best_col_all(nodes, root)))
            /\ pc' = "all_cover_best"
            /\ UNCHANGED << nodes, partial_results, all_result >>
    /\ UNCHANGED << game_vars, input, NODE_COUNT, root, built, solution, ret, once_result,
                    covers, expect >>

\* Entry of search_all: record a solution or choose a column (nodes.rs:208-231).
search_all_entry ==
    /\ pc = "all_entry"
    /\ IF nodes[root].r = root
       THEN /\ partial_results' = Append(partial_results, solution)
            /\ UNCHANGED nodes
            /\ all_return(stack, partial_results')
       ELSE /\ stack' = Append(stack, frame(best_col_all(nodes, root)))
            /\ pc' = "all_cover_best"
            /\ UNCHANGED << nodes, partial_results, all_result >>
    /\ UNCHANGED << game_vars, input, NODE_COUNT, root, built, solution, ret, once_result,
                    covers, expect >>

\* Cover the chosen column and go to its first row (nodes.rs:233-238).
search_all_cover_best ==
    /\ pc = "all_cover_best"
    /\ nodes' = cover(nodes, Top.best_col)
    /\ stack' = set_top([Top EXCEPT !.current_row = nodes'[Top.best_col].d])
    /\ pc' = "all_rows"
    /\ UNCHANGED << game_vars, input, NODE_COUNT, root, built, solution, partial_results, ret,
                    all_result, once_result, covers, expect >>

\* Head of the loop over the rows of the column: select the row, or leave the
\* loop, uncover the column and return (nodes.rs:239-245, 277-278).
search_all_rows ==
    /\ pc = "all_rows"
    /\ IF Top.current_row /= Top.best_col
       THEN /\ solution' = Append(solution, nodes[Top.current_row].data)
            /\ stack' = set_top([Top EXCEPT !.current_node = nodes[Top.current_row].r])
            /\ pc' = "all_cover_row"
            /\ UNCHANGED << nodes, all_result >>
       ELSE /\ nodes' = uncover(nodes, Top.best_col)
            /\ UNCHANGED solution
            /\ all_return(Callers, partial_results)
    /\ UNCHANGED << game_vars, input, NODE_COUNT, root, built, partial_results, ret,
                    once_result, covers, expect >>

\* Cover the next column that intersects the row, or recurse (nodes.rs:246-255).
search_all_cover_row ==
    /\ pc = "all_cover_row"
    /\ IF Top.current_node /= Top.current_row
       THEN /\ nodes' = cover(nodes, nodes[Top.current_node].c)
            /\ stack' = set_top([Top EXCEPT !.current_node = nodes'[Top.current_node].r])
            /\ pc' = "all_cover_row"
       ELSE /\ pc' = "all_entry"
            /\ UNCHANGED << nodes, stack >>
    /\ UNCHANGED << game_vars, input, NODE_COUNT, root, built, solution, partial_results, ret,
                    all_result, once_result, covers, expect >>

\* search_all's backtracking that leaves the row loop after the first row.
search_all_uncover_row_first_only ==
    /\ pc = "all_uncover_row"
    /\ IF Top.current_node /= Top.current_row
       THEN /\ nodes' = uncover(nodes, nodes[Top.current_node].c)
            /\ stack' = set_top([Top EXCEPT !.current_node = nodes'[Top.current_node].l])
            /\ pc' = "all_uncover_row"
            /\ UNCHANGED solution
       ELSE /\ solution' = SubSeq(solution, 1, Len(solution) - 1)
            /\ stack' = set_top([Top EXCEPT !.current_row = Top.best_col])
            /\ pc' = "all_rows"
            /\ UNCHANGED nodes
    /\ UNCHANGED << game_vars, input, NODE_COUNT, root, built, partial_results, ret,
                    all_result, once_result, covers, expect >>

\* search_all's backtracking that pops the row and stays on it.
search_all_uncover_row_same_row ==
    /\ pc = "all_uncover_row"
    /\ IF Top.current_node /= Top.current_row
       THEN /\ nodes' = uncover(nodes, nodes[Top.current_node].c)
            /\ stack' = set_top([Top EXCEPT !.current_node = nodes'[Top.current_node].l])
            /\ pc' = "all_uncover_row"
            /\ UNCHANGED solution
       ELSE /\ solution' = SubSeq(solution, 1, Len(solution) - 1)
            /\ stack' = stack
            /\ pc' = "all_rows"
            /\ UNCHANGED nodes
    /\ UNCHANGED << game_vars, input, NODE_COUNT, root, built, partial_results, ret,
                    all_result, once_result, covers, expect >>

\* Backtracking: uncover the next column of the row, right to left, or pop the
\* row and step to the next row of the column (nodes.rs:261-274).
search_all_uncover_row ==
    /\ pc = "all_uncover_row"
    /\ IF Top.current_node /= Top.current_row
       THEN /\ nodes' = uncover(nodes, nodes[Top.current_node].c)
            /\ stack' = set_top([Top EXCEPT !.current_node = nodes'[Top.current_node].l])
            /\ pc' = "all_uncover_row"
            /\ UNCHANGED solution
       ELSE /\ solution' = SubSeq(solution, 1, Len(solution) - 1)
            /\ stack' = set_top([Top EXCEPT !.current_row = nodes[Top.current_row].d])
            /\ pc' = "all_rows"
            /\ UNCHANGED nodes
    /\ UNCHANGED << game_vars, input, NODE_COUNT, root, built, partial_results, ret,
                    all_result, once_result, covers, expect >>

\* ------------------------------------------------------------ search_once
\* solve_once up to its call of search_once (nodes.rs:362-364).
solve_once ==
    /\ pc = "idle"
    /\ ~once_result.done
    /\ IF build_panics(input)
       THEN build_panic
       ELSE /\ LET n == build(input, NODE_COUNT)
               IN  /\ nodes' = n
                   /\ built' = n
                   /\ root' = NODE_COUNT
                   /\ NODE_COUNT' = NODE_COUNT + nodes_created(n)
            /\ pc' = "once_entry"
    /\ solution' = << >>
    /\ stack' = << >>
    /\ ret' = None
    /\ UNCHANGED << game_vars, input, partial_results, all_result, once_result, covers, expect >>

\* A search_once call returns `value` with the callers' frames `callers` left
\* on the stack.  The top-level call returns into solve_once, which returns
\* the value (nodes.rs:364); a nested call returns to nodes.rs:335.
once_return(callers, value) ==
    /\ ret' = value
    /\ stack' = callers
    /\ IF callers = << >>
       THEN /\ pc' = "idle"
            /\ once_result' = Result(TRUE, value)
       ELSE /\ pc' = "once_after_call"
            /\ UNCHANGED once_result

\* Entry of search_once: return the solution or choose a column
\* (nodes.rs:291-311).
search_once_entry ==
    /\ pc = "once_entry"
    /\ IF nodes[root].r = root
       THEN once_return(stack, Some(solution))
       ELSE /\ stack' = Append(stack, frame(best_col_once(nodes, root)))
            /\ pc' = "once_cover_best"
            /\ UNCHANGED << ret, once_result >>
    /\ UNCHANGED << game_vars, input, NODE_COUNT, nodes, root, built, solution, partial_results,
                    all_result, covers, expect >>

\* Cover the chosen column and go to its first row (nodes.rs:313-318).
search_once_cover_best ==
    /\ pc = "once_cover_best"
    /\ nodes' = cover(nodes, Top.best_col)
    /\ stack' = set_top([Top EXCEPT !.current_row = nodes'[Top.best_col].d])
    /\ pc' = "once_rows"
    /\ UNCHANGED << game_vars, input, NODE_COUNT, root, built, solution, partial_results, ret,
                    all_result, once_result, covers, expect >>

\* Head of the loop over the rows of the column: select the row, or leave the
\* loop, uncover the column and return None (nodes.rs:319-325, 357-358).
search_once_rows ==
    /\ pc = "once_rows"
    /\ IF Top.current_row /= Top.best_col
       THEN /\ solution' = Append(solution, nodes[Top.current_row].data)
            /\ stack' = set_top([Top EXCEPT !.current_node = nodes[Top.current_row].r])
            /\ pc' = "once_cover_row"
            /\ UNCHANGED << nodes, ret, once_result >>
       ELSE /\ nodes' = uncover(nodes, Top.best_col)
            /\ UNCHANGED solution
            /\ once_return(Callers, None)
    /\ UNCHANGED << game_vars, input, NODE_COUNT, root, built, partial_results, all_result,
                    covers, expect >>

\* Cover the next column that intersects the row, or recurse (nodes.rs:326-335).
search_once_cover_row ==
    /\ pc = "once_cover_row"
    /\ IF Top.current_node /= Top.current_row
       THEN /\ nodes' = cover(nodes, nodes[Top.current_node].c)
            /\ stack' = set_top([Top EXCEPT !.current_node = nodes'[Top.current_node].r])
            /\ pc' = "once_cover_row"
       ELSE /\ pc' = "once_entry"
            /\ UNCHANGED << nodes, stack >>
    /\ UNCHANGED << game_vars, input, NODE_COUNT, root, built, solution, partial_results, ret,
                    all_result, once_result, covers, expect >>

\* The recursive call has returned (nodes.rs:335): a solution is returned at
\* once, without backtracking; otherwise the backtracking loop starts
\* (nodes.rs:338-340).
search_once_after_call ==
    /\ pc = "once_after_call"
    /\ IF ret /= None
       THEN once_return(Callers, ret)
       ELSE /\ stack' = set_top([Top EXCEPT !.current_node = nodes[Top.current_row].l])
            /\ pc' = "once_uncover_row"
            /\ UNCHANGED << ret, once_result >>
    /\ UNCHANGED << game_vars, input, NODE_COUNT, nodes, root, built, solution, partial_results,
                    all_result, covers, expect >>

\* Backtracking: uncover the next column of the row, right to left, or pop the
\* row and step to the next row of the column (nodes.rs:341-354).
search_once_uncover_row ==
    /\ pc = "once_uncover_row"
    /\ IF Top.current_node /= Top.current_row
       THEN /\ nodes' = uncover(nodes, nodes[Top.current_node].c)
            /\ stack' = set_top([Top EXCEPT !.current_node = nodes'[Top.current_node].l])
            /\ pc' = "once_uncover_row"
            /\ UNCHANGED solution
       ELSE /\ solution' = SubSeq(solution, 1, Len(solution) - 1)
            /\ stack' = set_top([Top EXCEPT !.current_row = nodes[Top.current_row].d])
            /\ pc' = "once_rows"
            /\ UNCHANGED nodes
    /\ UNCHANGED << game_vars, input, NODE_COUNT, root, built, partial_results, ret,
                    all_result, once_result, covers, expect >>

\* ------------------------------------------------------------------- Spec
Next ==
    \/ solve_all
    \/ search_all_entry
    \/ search_all_cover_best
    \/ search_all_rows
    \/ search_all_cover_row
    \/ search_all_uncover_row
    \/ solve_once
    \/ search_once_entry
    \/ search_once_cover_best
    \/ search_once_rows
    \/ search_once_cover_row
    \/ search_once_after_call
    \/ search_once_uncover_row

Spec == Init /\ [][Next]_vars

\* ------------------------------------------------------ malformed matrices
\* The rows a caller can put into a Vec<Vec<bool>>: any length, 0 included.
RaggedRows == UNION { [1..w -> BOOLEAN] : w \in 0..MaxRaggedLen }

\* The matrices that are not rectangular and non-empty: no row at all, rows
\* without a cell, or rows of different lengths.
Malformed ==
    { m \in UNION { [1..h -> RaggedRows] : h \in 0..MaxRaggedRows } :
        IF Len(m) = 0 THEN TRUE
        ELSE IF Len(m[1]) = 0 THEN TRUE
        ELSE \E y \in 1..Len(m) : Len(m[y]) /= Len(m[1]) }

\* The caller holds a malformed matrix and calls the solver on it.
InitMalformed ==
    /\ input \in Malformed
    /\ InitSolver
    /\ pc = "idle"
    /\ game = [w |-> 0, h |-> 0, blocks |-> << >>]
    /\ block_i = 0
    /\ transformations = << >>
    /\ variations = << >>
    /\ origin = << >>

SpecMalformed == InitMalformed /\ [][Next]_vars

\* ----------------------------------------------------------------- covers
\* Cover and uncover called on a built graph, the uncovers in reverse order of
\* the covers.  Each entry of `covers` keeps the header and the graph as it
\* was before the cover; `expect` keeps the graph the last uncover has to
\* give back and the number of uncovers since the last cover.
cover_build ==
    /\ pc = "idle"
    /\ IF build_panics(input)
       THEN build_panic
       ELSE /\ LET n == build(input, NODE_COUNT)
               IN  /\ nodes' = n
                   /\ built' = n
                   /\ root' = NODE_COUNT
                   /\ NODE_COUNT' = NODE_COUNT + nodes_created(n)
            /\ pc' = "cover"
    /\ UNCHANGED << game_vars, input, solution, partial_results, stack, ret, all_result,
                    once_result, covers, expect >>

cover_call ==
    /\ pc = "cover"
    /\ \E i \in 1..Len(header_row(nodes, root)) :
         LET h == header_row(nodes, root)[i]
         IN  /\ covers' = Append(covers, [header |-> h, before |-> nodes])
             /\ nodes' = cover(nodes, h)
    /\ expect' = None
    /\ UNCHANGED << game_vars, input, NODE_COUNT, root, built, solution, partial_results, stack,
                    ret, pc, all_result, once_result >>

uncover_call ==
    /\ pc = "cover"
    /\ covers /= << >>
    /\ nodes' = uncover(nodes, covers[Len(covers)].header)
    /\ covers' = SubSeq(covers, 1, Len(covers) - 1)
    /\ expect' = Some([before |-> covers[Len(covers)].before,
                       undone |-> IF expect = None THEN 1 ELSE expect[1].undone + 1])
    /\ UNCHANGED << game_vars, input, NODE_COUNT, root, built, solution, partial_results, stack,
                    ret, pc, all_result, once_result >>

NextCover == cover_build \/ cover_call \/ uncover_call

SpecCover == Init /\ [][NextCover]_vars

\* ----------------------------------------------------------------- blocks
\* A piece string is given as its trimmed lines, each a sequence of characters.
\* Block2D::from_string: '.' is empty, anything else is filled.
from_string(s) ==
    LET data == [i \in 1..Len(s) |-> [j \in 1..Len(s[i]) |-> s[i][j] /= "."]]
    IN  [w |-> Len(data[1]), h |-> Len(data), data |-> data]

\* A flip that leaves the block as it is.
flip_nothing(b) == b

\* Block2D::flip: the rows in reverse order.
flip(b) == [b EXCEPT !.data = [i \in 1..Len(b.data) |-> b.data[Len(b.data) + 1 - i]]]

\* Block2D::rotate: row y of the result is column y of the block read from the
\* last row up to the first (y in 0..w, x in (0..h).rev()), then w and h swap.
rotate(b) ==
    [w |-> b.h,
     h |-> b.w,
     data |-> [y \in 1..b.w |-> [k \in 1..b.h |-> b.data[b.h + 1 - k][y]]]]

\* The state of get_transformations' loops (blocks.rs:49-55) after `outer`
\* rounds of the outer loop and `inner` rounds of the inner one:
\* st = [self, hs, outer, inner].
RECURSIVE transformations_loop(_)
transformations_loop(st) ==
    IF st.outer >= 2 THEN st
    ELSE IF st.inner >= 4
    THEN transformations_loop([st EXCEPT !.self = flip(st.self),
                                         !.outer = @ + 1, !.inner = 0])
    ELSE transformations_loop([st EXCEPT !.hs = @ \cup { st.self },
                                         !.self = rotate(st.self),
                                         !.inner = @ + 1])

\* The HashSet that get_transformations collects (blocks.rs:48-55).
transformations_set(b) ==
    transformations_loop([self |-> b, hs |-> {}, outer |-> 0, inner |-> 0]).hs

\* The block as get_transformations leaves it (it works on &mut self).
transformations_self(b) ==
    transformations_loop([self |-> b, hs |-> {}, outer |-> 0, inner |-> 0]).self

\* hs.into_iter().collect() (blocks.rs:56): the elements of the set, each
\* once, in an order the hasher decides: every order of the elements.
RECURSIVE elements(_)
elements(hs) ==
    IF hs = {} THEN << >>
    ELSE LET x == CHOOSE x \in hs : TRUE IN << x >> \o elements(hs \ { x })

collect(hs) ==
    LET e == elements(hs)
    IN  { [i \in 1..Len(e) |-> e[p[i]]] : p \in Permutations(1..Len(e)) }

\* Game2D::from_strings.
from_strings(w, h, s) == [w |-> w, h |-> h, blocks |-> [i \in 1..Len(s) |-> from_string(s[i])]]

\* One row of get_matrix (blocks.rs:85-96): bit py * w + px of the entry.
entry(g, t, shift_x, shift_y) ==
    [k \in 1..(g.h * g.w) |->
        LET py == (k - 1) \div g.w
            px == (k - 1) % g.w
        IN  /\ shift_x <= px
            /\ px < shift_x + t.w
            /\ shift_y <= py
            /\ py < shift_y + t.h
            /\ t.data[py - shift_y + 1][px - shift_x + 1]]

\* The rows of one transformation (blocks.rs:83-99): shift_y in the outer
\* loop, shift_x in the inner loop.
placements(g, t) ==
    LET nx == g.w - t.w + 1
        ny == g.h - t.h + 1
    IN  [k \in 1..(nx * ny) |-> entry(g, t, (k - 1) % nx, (k - 1) \div nx)]

\* The rows of the transformations ts[i..], in order (blocks.rs:82).
RECURSIVE block_rows(_, _, _)
block_rows(g, ts, i) ==
    IF i > Len(ts) THEN << >>
    ELSE placements(g, ts[i]) \o block_rows(g, ts, i + 1)

\* self.h - transformation.h or self.w - transformation.w (blocks.rs:83-84)
\* goes below zero for a transformation of ts.  The subtraction is on usize:
\* a debug build panics; a release build wraps and the loop pushes rows until
\* memory is exhausted.  Either way get_matrix returns no matrix.
underflows(g, ts) == \E i \in 1..Len(ts) : ts[i].h > g.h \/ ts[i].w > g.w

\* Node::matrix_from_variations (nodes.rs:130-138).
matrix_from_variations(v) ==
    LET n == Len(v)
    IN  [i \in 1..n |->
            [j \in 1..(n + Len(v[i])) |-> IF j <= n THEN j = i ELSE v[i][j - n]]]

\* One round of get_matrix's loop over the blocks (blocks.rs:81-101).
get_matrix_block ==
    /\ pc = "get_matrix"
    /\ block_i < Len(game.blocks)
    /\ LET block == game.blocks[block_i + 1]
       IN  /\ \E ts \in collect(transformations_set(block)) :
                /\ transformations' = ts
                /\ IF underflows(game, ts)
                   THEN /\ pc' = "aborted"
                        /\ UNCHANGED << variations, origin, block_i >>
                   ELSE /\ LET rows == block_rows(game, ts, 1)
                           IN  /\ variations' = variations \o rows
                               /\ origin' = origin \o [k \in 1..Len(rows) |-> block_i]
                        /\ block_i' = block_i + 1
                        /\ pc' = "get_matrix"
           /\ game' = [game EXCEPT !.blocks[block_i + 1] = transformations_self(block)]
    /\ UNCHANGED << input, NODE_COUNT, nodes, root, built, solution, partial_results,
                    stack, ret, all_result, once_result, covers, expect >>

\* get_matrix returns the matrix, which the caller hands to the solver
\* (blocks.rs:103, lib.rs:21-22).
get_matrix_return ==
    /\ pc = "get_matrix"
    /\ block_i = Len(game.blocks)
    /\ input' = matrix_from_variations(variations)
    /\ pc' = "idle"
    /\ UNCHANGED << NODE_COUNT, nodes, root, built, solution, partial_results,
                    stack, ret, all_result, once_result, covers, expect, game,
                    block_i, transformations, variations, origin >>

\* The piece strings of the games.
Domino == << << "#", "#" >> >>
LTromino == << << "#", "#" >>, << ".", "#" >> >>
Monomino == << << "#" >> >>
Square == << << "#", "#" >>, << "#", "#" >> >>
STetromino == << << "#", "#", "." >>, << ".", "#", "#" >> >>
HalfDomino == << << "#", "." >> >>
LTetromino == << << "#", ".", "." >>, << "#", "#", "#" >> >>
Bar == << << "#", "#", "#" >> >>

PieceStrings == { Domino, LTromino, Monomino, Square, STetromino, HalfDomino, Bar }

\* The game of lib.rs's test (lib.rs:15-19).
TestGame == from_strings(3, 2, << Domino, LTromino, Monomino >>)

\* One piece on every board within the bounds (the 1 x 3 bar on the 3 x 1
\* board among them), the game of the test, three
\* dominoes on the 3 x 2 board, and the L-tetromino (eight orientations) on
\* the 1 x 1 board.
Games ==
    { from_strings(w, h, << s >>) : w \in 1..MaxW, h \in 1..MaxH, s \in PieceStrings }
        \cup { TestGame, from_strings(3, 2, << Domino, Domino, Domino >>),
               from_strings(1, 1, << LTetromino >>) }

InitGame ==
    /\ game \in Games
    /\ input = << >>
    /\ InitSolver
    /\ pc = "get_matrix"
    /\ block_i = 0
    /\ transformations = << >>
    /\ variations = << >>
    /\ origin = << >>

NextGame ==
    \/ get_matrix_block
    \/ get_matrix_return
    \/ Next

SpecGame == InitGame /\ [][NextGame]_vars

\* ================================================================== claims
Range(s) == { s[i] : i \in 1..Len(s) }
Columns(m) == 1..Width(m)
RowIndices(m) == 0 .. Len(m) - 1
\* The columns in which row i (0-based) of m has a 1.
Ones(m, i) == { j \in Columns(m) : m[i + 1][j] }
HasEmptyColumn(m) == \E j \in Columns(m) : \A i \in RowIndices(m) : ~m[i + 1][j]

\* The rows of the set S cover every column of m exactly once.
IsExactCover(m, S) ==
    \A j \in Columns(m) : Cardinality({ i \in S : m[i + 1][j] }) = 1

\* The solution sol (a sequence of row indices) is a valid exact cover of m:
\* the union of its rows' 1-sets is the column set, and no two selected rows
\* share a column.
ValidCover(m, sol) ==
    /\ Range(sol) \subseteq RowIndices(m)
    /\ UNION { Ones(m, sol[p]) : p \in 1..Len(sol) } = Columns(m)
    /\ \A p, q \in 1..Len(sol) :
         p /= q => Ones(m, sol[p]) \cap Ones(m, sol[q]) = {}

\* C1: every solution returned by solve_all, and the solution returned by
\* solve_once when there is one, is a valid exact cover of the input matrix.
C1_SolutionsAreExactCovers ==
    /\ all_result.done =>
         \A k \in 1..Len(all_result.value) : ValidCover(input, all_result.value[k])
    /\ (once_result.done /\ once_result.value /= None) =>
         ValidCover(input, once_result.value[1])

\* C2 as stated: solve_all is complete: every set of rows that covers each
\* column of the input exactly once is among the returned solutions, as a set
\* of indices.
C2_SolveAllComplete ==
    all_result.done =>
        \A S \in SUBSET RowIndices(input) :
            IsExactCover(input, S) =>
                \E k \in 1..Len(all_result.value) : Range(all_result.value[k]) = S

\* C2 as amended: every set of rows, none of them without a 1, that covers
\* each column of the input exactly once is among the returned solutions.
C2_SolveAllCompleteNonEmptyRows ==
    all_result.done =>
        \A S \in SUBSET RowIndices(input) :
            (IsExactCover(input, S) /\ \A i \in S : Ones(input, i) /= {}) =>
                \E k \in 1..Len(all_result.value) : Range(all_result.value[k]) = S

\* A matrix with two exact covers, one of them of two rows or more, solved.
C2_Witness ==
    /\ all_result.done
    /\ Len(all_result.value) >= 2
    /\ \E S \in SUBSET RowIndices(input) :
         /\ Cardinality(S) >= 2
         /\ IsExactCover(input, S)
         /\ \E k \in 1..Len(all_result.value) : Range(all_result.value[k]) = S

\* C3: solve_once returns a solution iff solve_all returns a non-empty list,
\* and then it is the first element of that list, rows in the same order.
C3_OnceIsFirstOfAll ==
    (all_result.done /\ once_result.done) =>
        /\ (once_result.value /= None) <=> (Len(all_result.value) > 0)
        /\ once_result.value /= None => once_result.value[1] = all_result.value[1]

\* Both entry points have run on a matrix with several solutions, the first
\* of two rows or more.
C3_Witness ==
    /\ all_result.done
    /\ once_result.done
    /\ Len(all_result.value) >= 2
    /\ once_result.value /= None
    /\ Len(once_result.value[1]) >= 2
    /\ once_result.value[1] = all_result.value[1]

\* C4: on a matrix that has a column without a 1, solve_all returns the empty
\* list and solve_once returns None.
C4_EmptyColumnIsInfeasible ==
    HasEmptyColumn(input) =>
        /\ all_result.done => all_result.value = << >>
        /\ once_result.done => once_result.value = None

\* C5: cover and uncover are inverses: when the covers Cover(c1) .. Cover(ck)
\* of headers of the header row are undone in reverse order, each uncover
\* gives back the links and payloads of every node as they were before the
\* matching cover, and so the whole sequence gives back the built graph.
C5_CoverUncoverRoundTrip ==
    expect /= None =>
        /\ nodes = expect[1].before
        /\ covers = << >> => nodes = built

\* Three nested covers that unlinked data nodes have all been undone.
C5_Witness ==
    /\ expect /= None
    /\ covers = << >>
    /\ expect[1].undone >= 3
    /\ nodes = built
    /\ \E id \in DOMAIN nodes : nodes[id].c /= id /\ nodes[id].l /= id

\* C6: solve_all never returns the same solution twice: two entries of the
\* returned list differ as sets of row indices.
C6_NoDuplicateSolutions ==
    all_result.done =>
        \A p, q \in 1..Len(all_result.value) :
            p /= q => Range(all_result.value[p]) /= Range(all_result.value[q])

\* solve_all has returned three solutions or more.
C6_Witness ==
    /\ all_result.done
    /\ Len(all_result.value) >= 3

\* ------------------------------------------------------- claims on tilings
Pieces == Len(game.blocks)
\* get_matrix has returned the matrix of the game.
MatrixReturned == Pieces > 0 /\ pc /= "get_matrix" /\ pc /= "aborted"
\* The number of filled cells of a placement row.
Filled(row) == Cardinality({ k \in 1..Len(row) : row[k] })

RECURSIVE FilledArea(_, _)
FilledArea(sol, k) ==
    IF k > Len(sol) THEN 0
    ELSE Filled(variations[sol[k] + 1]) + FilledArea(sol, k + 1)

\* C7: every row of the game matrix has Pieces + h * w columns: of the first
\* Pieces bits exactly the bit of the row's piece is set, and the other h * w
\* bits are the cell bits of the placement.
C7_PieceIdentityBlock ==
    MatrixReturned =>
        \A r \in 1..Len(input) :
            /\ Len(input[r]) = Pieces + game.h * game.w
            /\ \A p \in 1..Pieces : input[r][p] = (p - 1 = origin[r])
            /\ \A k \in 1..(game.h * game.w) : input[r][Pieces + k] = variations[r][k]

\* C8: in every solution of the game matrix each piece is placed exactly once
\* and the filled area of the selected placements is w * h.
C8_EachPieceOnce ==
    (MatrixReturned /\ all_result.done) =>
        \A s \in 1..Len(all_result.value) :
            LET sol == all_result.value[s]
            IN  /\ \A p \in 0 .. Pieces - 1 :
                     Cardinality({ k \in 1..Len(sol) : origin[sol[k] + 1] = p }) = 1
                /\ FilledArea(sol, 1) = game.w * game.h

\* C9: for the 3 x 2 board with the L-tromino, the domino and the monomino,
\* solve_all returns a non-empty list, and the cell bits of the rows of every
\* solution (the row without its leading piece columns) cover each of the 6
\* cells exactly once.
C9_TestGameIsTiled ==
    (MatrixReturned /\ all_result.done /\ Pieces = 3 /\ game.w = 3 /\ game.h = 2
        /\ { game.blocks[i] : i \in 1..3 }
             = { from_string(LTromino), from_string(Domino), from_string(Monomino) }) =>
        /\ Len(all_result.value) > 0
        /\ \A s \in 1..Len(all_result.value) :
             LET sol == all_result.value[s]
             IN  \A cell \in 1..6 :
                   Cardinality({ k \in 1..Len(sol) :
                                   input[sol[k] + 1][Pieces + cell] }) = 1

\* The eight images of a block under the symmetries of the square, each given
\* by where it takes its cells from: the four rotations, and the four
\* rotations of the block with its rows reversed.
Image(h, w, f(_, _)) == [w |-> w, h |-> h, data |-> [r \in 1..h |-> [c \in 1..w |-> f(r, c)]]]

D4Images(b) ==
    LET d == b.data
        h == b.h
        w == b.w
        r0(r, c) == d[r][c]
        r90(r, c) == d[h + 1 - c][r]
        r180(r, c) == d[h + 1 - r][w + 1 - c]
        r270(r, c) == d[c][w + 1 - r]
        f0(r, c) == d[h + 1 - r][c]
        f90(r, c) == d[c][r]
        f180(r, c) == d[r][w + 1 - c]
        f270(r, c) == d[h + 1 - c][w + 1 - r]
    IN  { Image(h, w, r0), Image(w, h, r90), Image(h, w, r180), Image(w, h, r270),
          Image(h, w, f0), Image(w, h, f90), Image(h, w, f180), Image(w, h, f270) }

\* The block that the last call of get_transformations worked on.
LastBlock == game.blocks[IF pc = "aborted" THEN block_i + 1 ELSE block_i]

\* C10: get_transformations returns the distinct shapes among the eight images
\* of the block, each once; so the full 2 x 2 square has one orientation and
\* gives (w - 1) * (h - 1) rows on a w x h board that it fits.
C10_DistinctD4Images ==
    /\ transformations /= << >> =>
         /\ Range(transformations) = D4Images(LastBlock)
         /\ \A i, j \in 1..Len(transformations) :
              i /= j => transformations[i] /= transformations[j]
    /\ (MatrixReturned /\ game.blocks = << from_string(Square) >>) =>
         /\ Len(transformations) = 1
         /\ Len(input) = (game.w - 1) * (game.h - 1)

\* The matrix of the square on the 3 x 3 board has been returned: 4 rows.
C10_Witness ==
    /\ MatrixReturned
    /\ game.blocks = << from_string(Square) >>
    /\ game.w = 3
    /\ game.h = 3
    /\ Len(input) = 4

\* ------------------------------------------------- claims on placement rows
\* The orientation o lies within the board.
Fits(o) == o.w <= game.w /\ o.h <= game.h

\* The cell bits of the orientation o shifted by (sx, sy), row-major: the bit
\* of cell (x, y) is bit y * w + x.
PlacementBits(o, sx, sy) ==
    [k \in 1..(game.h * game.w) |->
        \E y \in 0 .. game.h - 1, x \in 0 .. game.w - 1 :
            /\ k = y * game.w + x + 1
            /\ sx <= x /\ x < sx + o.w
            /\ sy <= y /\ y < sy + o.h
            /\ o.data[y - sy + 1][x - sx + 1]]

\* C11: every row emitted by get_matrix is a placement that fits the board
\* (0 <= shift_x <= w - o.w and 0 <= shift_y <= h - o.h), for every piece,
\* one with an orientation wider or taller than the board included: such an
\* orientation gives no rows, and w - o.w and h - o.h neither wrap nor abort.
\* Stated for the pieces that have an orientation within the board: get_matrix
\* does not abort on them, and every row is a placement within the board.
C11_PlacementsFitNoAbort ==
    /\ pc = "aborted" => \A o \in D4Images(LastBlock) : ~Fits(o)
    /\ \A r \in 1..Len(variations) :
         \E o \in D4Images(game.blocks[origin[r] + 1]) :
            /\ Fits(o)
            /\ \E sx \in 0 .. game.w - o.w, sy \in 0 .. game.h - o.h :
                 variations[r] = PlacementBits(o, sx, sy)

\* --------------------------------------------- claims on malformed matrices
\* C12: a malformed matrix (no rows, no columns, or rows of different
\* lengths) is rejected up front by solve_all and solve_once: the error
\* reaches the caller before any node structure is searched, and no solution
\* list is produced.  A panic of build counts as the error here.
C12_MalformedRejected ==
    input \in Malformed =>
        /\ pc \in { "idle", "panicked" }
        /\ ~all_result.done
        /\ ~once_result.done

\* ------------------------------------------------- claims on the search
\* A search call has chosen its column and has not yet covered it.
Chosen == pc \in { "all_cover_best", "once_cover_best" }

\* C13: at every search step with a non-empty header row the chosen column
\* has the least payload among the headers of root's right chain and is the
\* leftmost of those; search_all and search_once make the same choice.
C13_LeftmostMinimalColumn ==
    /\ Chosen =>
         LET hr == header_row(nodes, root)
         IN  \E i \in 1..Len(hr) :
                /\ hr[i] = Top.best_col
                /\ \A j \in 1..Len(hr) : nodes[hr[j]].data >= nodes[hr[i]].data
                /\ \A j \in 1..(i - 1) : nodes[hr[j]].data > nodes[hr[i]].data
    /\ (nodes /= << >> /\ nodes[root].r /= root) =>
         best_col_all(nodes, root) = best_col_once(nodes, root)

\* search_all has chosen among three columns or more, of which two share the
\* least payload and the first has a larger one.
C13_Witness ==
    /\ pc = "all_cover_best"
    /\ LET hr == header_row(nodes, root)
       IN  /\ Len(hr) >= 3
           /\ nodes[hr[1]].data > nodes[Top.best_col].data
           /\ \E j \in 1..Len(hr) :
                hr[j] /= Top.best_col /\ nodes[hr[j]].data = nodes[Top.best_col].data

\* ------------------------------------------------ claims on the node graph
\* The headers of the current build, in the header row or not.
Headers == { header(root, x) : x \in 0 .. Width(input) - 1 }
\* The data nodes of the current build.
DataNodes == { id \in DOMAIN nodes : id > header(root, Width(input) - 1) }

\* The nodes met walking down from `current` until the header h is met.
RECURSIVE ColumnRing(_, _, _)
ColumnRing(n, h, current) ==
    IF current = h THEN << >>
    ELSE << current >> \o ColumnRing(n, h, n[current].d)

\* C14: after build and after every cover and uncover of the search, the
\* payload of each header, covered or not, is the number of data nodes met
\* walking down from the header until it is met again; no payload is below 0.
C14_PayloadIsColumnSize ==
    nodes /= << >> =>
        \A h \in Headers :
            /\ nodes[h].data = Len(ColumnRing(nodes, h, nodes[h].d))
            /\ nodes[h].data >= 0

\* In the middle of a search: a covered column that still holds nodes, and a
\* column of the header row that has lost some of its nodes but not all.
C14_Witness ==
    /\ nodes /= << >>
    /\ stack /= << >>
    /\ \E h \in Headers \ Range(header_row(nodes, root)) : nodes[h].data >= 2
    /\ \E h \in Range(header_row(nodes, root)) :
         0 < nodes[h].data /\ nodes[h].data < built[h].data

\* x is linked both ways into its horizontal ring.
LinkedLR(n, x) == n[n[x].l].r = x /\ n[n[x].r].l = x
\* x is linked both ways into its vertical ring.
LinkedUD(n, x) == n[n[x].u].d = x /\ n[n[x].d].u = x

\* C15: after build and after every cover and uncover of the search: the
\* root and every header of root's right chain have x.l.r = x and x.r.l = x;
\* every data node met walking down from a header has x.u.d = x and
\* x.d.u = x; every data node, live or not, has x.l.r = x and x.r.l = x.
C15_RingsAreDoublyLinked ==
    nodes /= << >> =>
        /\ \A x \in { root } \cup Range(header_row(nodes, root)) : LinkedLR(nodes, x)
        /\ \A h \in Headers :
             \A x \in Range(ColumnRing(nodes, h, nodes[h].d)) : LinkedUD(nodes, x)
        /\ \A x \in DataNodes : LinkedLR(nodes, x)

\* Two search calls deep, with a data node that is out of its column and a
\* header that is out of the header row.
C15_Witness ==
    /\ nodes /= << >>
    /\ Len(stack) >= 2
    /\ \E x \in DataNodes : ~LinkedUD(nodes, x) /\ nodes[x].r /= x
    /\ \E h \in Headers : ~LinkedLR(nodes, h) /\ nodes[h].data > 0

\* The elements of a set of numbers in increasing order.
RECURSIVE Ascending(_)
Ascending(S) ==
    IF S = {} THEN << >>
    ELSE LET x == CHOOSE x \in S : \A y \in S : x <= y
         IN  << x >> \o Ascending(S \ { x })

\* The data nodes of the graph n for the cell of row i (0-based) and column
\* j (1-based) of the input.
CellNodes(n, i, j) ==
    { id \in DOMAIN n : /\ id > header(root, Width(input) - 1)
                        /\ n[id].data = i
                        /\ n[id].c = header(root, j - 1) }

\* build has returned the graph and the search has not yet made a step.
JustBuilt == pc \in { "all_entry", "once_entry" } /\ stack = << >> /\ nodes = built

\* C16: build represents the matrix: walking down from the header of column
\* j visits one data node per row i with a 1 in column j, in increasing i
\* and with payload i, and then the header again, and the header's payload is
\* the number of those rows; the data nodes of a row form a horizontal ring
\* in increasing column order (alone, a node is its own neighbour); root's
\* right chain threads the headers with payload > 0 in increasing column
\* order and returns to the root.
C16_BuildRepresentsMatrix ==
    JustBuilt =>
        /\ \A j \in Columns(input) :
             LET h == header(root, j - 1)
                 ring == ColumnRing(built, h, built[h].d)
                 rows == Ascending({ i \in RowIndices(input) : input[i + 1][j] })
             IN  /\ Len(ring) = Len(rows)
                 /\ \A k \in 1..Len(ring) :
                      /\ built[ring[k]].data = rows[k]
                      /\ built[ring[k]].c = h
                      /\ ring[k] \in CellNodes(built, rows[k], j)
                 /\ built[h].data = Len(rows)
        /\ \A i \in RowIndices(input) :
             LET cols == Ascending(Ones(input, i))
                 len == Len(cols)
             IN  /\ \A j \in Columns(input) :
                      Cardinality(CellNodes(built, i, j)) = IF input[i + 1][j] THEN 1 ELSE 0
                 /\ \A k \in 1..len :
                      \A x \in CellNodes(built, i, cols[k]) :
                        \A y \in CellNodes(built, i, cols[(k % len) + 1]) :
                            built[x].r = y /\ built[y].l = x
        /\ header_row(built, root)
             = Ascending({ h \in Headers : built[h].data > 0 })

\* The graph of a matrix with a column without a 1, a row with one 1 and a
\* row with three has been built.
C16_Witness ==
    /\ JustBuilt
    /\ HasEmptyColumn(input)
    /\ \E i \in RowIndices(input) : Cardinality(Ones(input, i)) = 1
    /\ \E i \in RowIndices(input) : Cardinality(Ones(input, i)) >= 3
    /\ \E j \in Columns(input) : built[header(root, j - 1)].data >= 2

\* ------------------------------------------- claims on the solution order
\* The sequence a comes before the sequence b: at the first position where
\* they differ, a has the smaller entry.
LexLess(a, b) ==
    \E k \in 1..Len(a) :
        /\ k <= Len(b)
        /\ \A i \in 1..(k - 1) : a[i] = b[i]
        /\ a[k] < b[k]

\* C17: solve_all lists the solutions in the order in which the rows of each
\* chosen column are tried, top to bottom: each solution holds its row
\* indices in the order of selection, and of two solutions of the list the
\* earlier one has the smaller row index at the first position where they
\* differ, so the list is strictly increasing in lexicographic order.
C17_SolutionsInLexOrder ==
    all_result.done =>
        \A p, q \in 1..Len(all_result.value) :
            p < q => LexLess(all_result.value[p], all_result.value[q])

\* solve_all has returned three solutions or more of which two start with
\* the same row.
C17_Witness ==
    /\ all_result.done
    /\ Len(all_result.value) >= 3
    /\ \E p, q \in 1..Len(all_result.value) :
         /\ p < q
         /\ Len(all_result.value[p]) >= 2
         /\ Len(all_result.value[q]) >= 2
         /\ all_result.value[p][1] = all_result.value[q][1]

\* ------------------------------------------- claims on the placement rows
\* The number of placements of the orientation o on the board.
Shifts(o) == IF Fits(o) THEN (game.w - o.w + 1) * (game.h - o.h + 1) ELSE 0

\* The number of rows of the orientations ts[1 .. t-1].
RECURSIVE RowsBefore(_, _)
RowsBefore(ts, t) == IF t <= 1 THEN 0 ELSE RowsBefore(ts, t - 1) + Shifts(ts[t - 1])

\* The rows of the block that get_matrix handled last are, for each
\* orientation in the order of the vector, one row per shift, shift_y in the
\* outer and shift_x in the inner loop, with the row-major cell bits.
LastBlockRows ==
    LET ts == transformations
        mine == { r \in 1..Len(variations) : origin[r] = block_i - 1 }
        base == Len(variations) - Cardinality(mine)
    IN  /\ Cardinality(mine) = RowsBefore(ts, Len(ts) + 1)
        /\ \A r \in mine : r > base
        /\ \A t \in 1..Len(ts) :
             Fits(ts[t]) =>
                \A sy \in 0 .. game.h - ts[t].h, sx \in 0 .. game.w - ts[t].w :
                    variations[base + RowsBefore(ts, t)
                                 + sy * (game.w - ts[t].w + 1) + sx + 1]
                        = PlacementBits(ts[t], sx, sy)

\* C18: for every piece, every orientation o that fits the board and every
\* shift with 0 <= shift_x <= w - o.w and 0 <= shift_y <= h - o.h, get_matrix
\* emits exactly one placement row, shift_y outer and shift_x inner, whose
\* h * w cell bits are row-major: bit y * w + x is set iff the cell (x, y) lies
\* in the shifted box of o and o is filled there.
C18_OneRowPerPlacement ==
    /\ pc = "aborted" =>
         \A i \in 1..Pieces : \A o \in D4Images(game.blocks[i]) : ~Fits(o)
    /\ (pc /= "aborted" /\ block_i >= 1) => LastBlockRows

\* ------------------------------------------------- claims on termination
\* The number of steps from `current` to `stop` along the right links.
RECURSIVE RightSteps(_, _, _)
RightSteps(n, current, stop) ==
    IF current = stop THEN 0 ELSE 1 + RightSteps(n, n[current].r, stop)

\* The number of steps from `current` to `stop` along the left links.
RECURSIVE LeftSteps(_, _, _)
LeftSteps(n, current, stop) ==
    IF current = stop THEN 0 ELSE 1 + LeftSteps(n, n[current].l, stop)

\* The node reached from x by k steps along the link `dir`.
RECURSIVE Walk(_, _, _, _)
Walk(n, x, dir, k) ==
    IF k = 0 THEN x
    ELSE Walk(n, CASE dir = "u" -> n[x].u [] dir = "d" -> n[x].d
                   [] dir = "l" -> n[x].l [] OTHER -> n[x].r, dir, k - 1)

\* The walk from x along `dir` comes back to x.
Returns(n, x, dir) == \E k \in 1..Cardinality(DOMAIN n) : Walk(n, x, dir, k) = x

\* The ring walks of cover, uncover and the searches come back to the node
\* they start from: down and up from a header, right and left from a data
\* node, right from the root.
RingsReturn ==
    nodes /= << >> =>
        /\ Returns(nodes, root, "r")
        /\ \A h \in Headers : Returns(nodes, h, "d") /\ Returns(nodes, h, "u")
        /\ \A x \in DataNodes : Returns(nodes, x, "r") /\ Returns(nodes, x, "l")

\* Both entry points have returned; the caller makes no further call.
Terminated == pc = "idle" /\ all_result.done /\ once_result.done

\* A state that is not the final one has a step: every position of a call
\* has its step, and a step of a search call has its frame.
HasStep ==
    \/ Terminated
    \/ pc = "idle"
    \/ pc \in { "all_entry", "once_entry" }
    \/ /\ pc \in { "all_cover_best", "all_rows", "all_cover_row", "all_uncover_row",
                    "once_cover_best", "once_rows", "once_cover_row",
                    "once_after_call", "once_uncover_row" }
       /\ stack /= << >>

\* The measure of a state: the number of entry points that have not
\* returned, then for each frame, outermost first, the rows of its column
\* that are left, the position within the round of its row loop, and the
\* nodes left in the loop over the row; then the call that is being entered.
\* Sequences are compared position by position.
Stage ==
    CASE pc \in { "all_cover_best", "once_cover_best" } -> 6
      [] pc \in { "all_rows", "once_rows" } -> 5
      [] pc \in { "all_cover_row", "once_cover_row" } -> 4
      [] pc \in { "all_entry", "once_entry" } -> 3
      [] pc = "once_after_call" -> 2
      [] OTHER -> 1

FrameMeasure(f, stage) ==
    << IF stage = 6 THEN nodes[f.best_col].data + 1
       ELSE Len(ColumnRing(nodes, f.best_col, f.current_row)),
       stage,
       CASE stage = 4 -> RightSteps(nodes, f.current_node, f.current_row)
         [] stage = 1 -> LeftSteps(nodes, f.current_node, f.current_row)
         [] OTHER -> 0 >>

RECURSIVE FramesMeasure(_)
FramesMeasure(k) ==
    IF k > Len(stack) THEN << >>
    ELSE FrameMeasure(stack[k], IF k = Len(stack) THEN Stage ELSE 3)
            \o FramesMeasure(k + 1)

Measure ==
    << (IF all_result.done THEN 0 ELSE 1) + (IF once_result.done THEN 0 ELSE 1) >>
        \o (IF pc = "idle" THEN << Len(input) + 3 >>
            ELSE FramesMeasure(1)
                    \o (IF pc \in { "all_entry", "once_entry" }
                        THEN << Len(input) + 2 >> ELSE << >>))

\* C19: solve_all and solve_once terminate on every rectangular non-empty
\* matrix: every ring walk comes back to the node it started from (at once
\* on a ring of one node), and the recursion unwinds to the top-level call.
\* Every step of the two calls makes the measure smaller, and a state without
\* a step is the one where both have returned.
C19_SolversTerminate ==
    /\ [](RingsReturn /\ HasStep)
    /\ [][LexLess(Measure', Measure)]_vars

\* Both calls have returned on a matrix of three rows or more, each with a 1,
\* and no column without a 1, that has no exact cover: every branch of the
\* search was a dead end.
C19_Witness ==
    /\ Terminated
    /\ all_result.value = << >>
    /\ once_result.value = None
    /\ Len(input) >= 3
    /\ ~HasEmptyColumn(input)
    /\ \A i \in RowIndices(input) : Ones(input, i) /= {}

\* ------------------------------------------- claims on the partial solution
\* A search call is being entered.
Entered == pc \in { "all_entry", "once_entry" }

\* The columns of the input that have a 1.
NonEmptyColumns == { j \in Columns(input) : \E i \in RowIndices(input) : input[i + 1][j] }

\* The rows of sol cover every non-empty column of the input exactly once.
CoversNonEmptyOnce(sol) ==
    \A j \in NonEmptyColumns :
        Cardinality({ p \in 1..Len(sol) : input[sol[p] + 1][j] }) = 1

\* C20: at every entry of search_all or search_once the rows of the partial
\* solution are pairwise column-disjoint, and the headers of root's right
\* chain are those of the columns that have a 1 in the matrix and no 1 in a
\* row of the partial solution; so a solution is recorded exactly when the
\* partial solution covers every non-empty column exactly once.
C20_HeaderRowIsUncoveredColumns ==
    /\ Entered =>
         /\ \A p, q \in 1..Len(solution) :
              p /= q => Ones(input, solution[p]) \cap Ones(input, solution[q]) = {}
         /\ Range(header_row(nodes, root))
              = { header(root, j - 1) : j \in
                    { j \in NonEmptyColumns :
                        \A p \in 1..Len(solution) : ~input[solution[p] + 1][j] } }
         /\ (nodes[root].r = root) <=> CoversNonEmptyOnce(solution)
    /\ \A k \in 1..Len(partial_results) : CoversNonEmptyOnce(partial_results[k])
    /\ (once_result.done /\ once_result.value /= None) =>
         CoversNonEmptyOnce(once_result.value[1])

\* A search call is entered with two rows selected and columns left.
C20_Witness ==
    /\ Entered
    /\ Len(solution) >= 2
    /\ nodes[root].r /= root

\* ------------------------------------------------- claims on backtracking
\* The covers of the other columns of a selected row, left to right
\* (nodes.rs:243-253, 326-333), applied to the graph n.
RECURSIVE RowCovered(_, _, _)
RowCovered(n, row, current) ==
    IF current = row THEN n
    ELSE RowCovered(cover(n, n[current].c), row, n[current].r)

\* The graph at the entry of the call made by the frames' innermost call:
\* the graph n with, for each of frames[k ..], its column and the other
\* columns of its selected row covered.
RECURSIVE EntryGraph(_, _, _)
EntryGraph(n, frames, k) ==
    IF k > Len(frames) THEN n
    ELSE LET f == frames[k]
             n1 == cover(n, f.best_col)
         IN  EntryGraph(RowCovered(n1, f.current_row, n1[f.current_row].r),
                        frames, k + 1)

\* The graph and the partial solution are what they are at the entry of the
\* call whose callers' frames are on the stack: the built graph with the
\* callers' selections covered, and the callers' selected rows.
AsAtEntry ==
    /\ nodes = EntryGraph(built, stack, 1)
    /\ solution = [k \in 1..Len(stack) |-> built[stack[k].current_row].data]

\* A search_all call has just returned to its caller's backtracking loop
\* (nodes.rs:257-260): the caller is about to uncover its row, last node first.
AllReturned ==
    /\ pc = "all_uncover_row"
    /\ Top.current_node = nodes[Top.current_row].l

\* A search_once call has just returned None to its caller (nodes.rs:335).
OnceReturnedNone == pc = "once_after_call" /\ ret = None

\* The top-level search_all returns into solve_all: after recording the
\* empty solution, or after the loop over the rows of its column.
TopAllReturns == pc \in { "all_entry", "all_rows" } /\ pc' = "idle"

\* The top-level search_once returns None into solve_once.
TopOnceReturnsNone == pc = "once_rows" /\ pc' = "idle"

\* C21: backtracking restores the state: whenever a search_all call returns,
\* at any depth, and whenever search_once returns None, the links of every
\* node, the payload of every header and the partial solution are what they
\* were at the entry of that call; so after the top-level search_all has
\* returned, the graph is the one that build made.
C21_BacktrackingRestores ==
    /\ []((Entered \/ AllReturned \/ OnceReturnedNone) => AsAtEntry)
    /\ [][(TopAllReturns \/ TopOnceReturnsNone)
            => (nodes' = built /\ solution' = << >>)]_vars

\* A nested search_all call has just returned without a solution found so
\* far: it covered its column, found no row that leads on, and uncovered
\* it; the caller has the graph and the partial solution of the entry.
C21_Witness ==
    /\ AllReturned
    /\ Len(stack) >= 1
    /\ stack[Len(stack)].current_row /= stack[Len(stack)].best_col
    /\ partial_results = << >>
    /\ nodes /= built
    /\ AsAtEntry

====
